---- MODULE Spec2Model ----
(***************************************************************************)
(* socketio-rs: the packet codec (Message::from_str) and the binary        *)
(* attachment reconstruction (reconstruct / _reconstruct) of               *)
(* src/src/message.rs.                                                     *)
(*                                                                         *)
(* A text is a sequence of one-character strings.  A Json value is a       *)
(* record [t |-> kind, v |-> payload]; a Json::Object (a BTreeMap) is the  *)
(* sequence of its [k, v] entries in ascending key order.                  *)
(***************************************************************************)
EXTENDS Integers, Sequences, FiniteSets, TLC

(***************************************************************************)
(* Bounds of the model.                                                    *)
(***************************************************************************)
\* the longest attachment list a caller supplies
MaxAttachments == 2
\* the largest max_depth handed to the public reconstruct
MaxMaxDepth == 3
\* the largest placeholder "num" of the generated trees
MaxNum == 2

(***************************************************************************)
(* Characters.                                                             *)
(***************************************************************************)
Digits == {"0", "1", "2", "3", "4", "5", "6", "7", "8", "9"}

\* the characters of the model in ascending code point order
Ascii ==
    << " ", "\"", "+", ",", "-", "/",
       "0", "1", "2", "3", "4", "5", "6", "7", "8", "9", ":", "[", "]", "_",
       "a", "b", "c", "d", "e", "f", "g", "h", "i", "j", "k", "l", "m",
       "n", "o", "p", "q", "r", "s", "t", "u", "v", "w", "x", "y", "z",
       "{", "}" >>

\* the rank of a character in the code point order (String's Ord, which
\* orders the keys of a BTreeMap<String, Json>)
CharCode(c) == CHOOSE i \in 1..Len(Ascii) : Ascii[i] = c

\* char::to_digit(10)
DigitVal(c) == CharCode(c) - CharCode("0")

RECURSIVE StrLess(_, _)
\* a < b for two Strings (lexicographic by code point)
StrLess(a, b) ==
    IF b = << >> THEN FALSE
    ELSE IF a = << >> THEN TRUE
    ELSE IF Head(a) = Head(b) THEN StrLess(Tail(a), Tail(b))
    ELSE CharCode(Head(a)) < CharCode(Head(b))

(***************************************************************************)
(* rustc_serialize::json::Json                                             *)
(***************************************************************************)
JNull == [t |-> "Null", v |-> 0]
JBool(b) == [t |-> "Boolean", v |-> b]
JU64(n) == [t |-> "U64", v |-> n]
JI64(n) == [t |-> "I64", v |-> n]
JF64(n) == [t |-> "F64", v |-> n]
JString(s) == [t |-> "String", v |-> s]
JArray(a) == [t |-> "Array", v |-> a]
JObject(m) == [t |-> "Object", v |-> m]

\* BTreeMap::get
MapGet(m, key) ==
    IF \E i \in 1..Len(m) : m[i].k = key
    THEN [some |-> TRUE, v |-> m[CHOOSE i \in 1..Len(m) : m[i].k = key].v]
    ELSE [some |-> FALSE, v |-> JNull]

\* BTreeMap::insert: replaces the value of an existing key, else inserts
\* the entry at its place in the key order
MapInsert(m, key, val) ==
    IF \E i \in 1..Len(m) : m[i].k = key
    THEN [i \in 1..Len(m) |-> IF m[i].k = key THEN [k |-> key, v |-> val] ELSE m[i]]
    ELSE LET n == Cardinality({i \in 1..Len(m) : StrLess(m[i].k, key)})
         IN  SubSeq(m, 1, n) \o << [k |-> key, v |-> val] >> \o SubSeq(m, n + 1, Len(m))

S_placeholder == << "_", "p", "l", "a", "c", "e", "h", "o", "l", "d", "e", "r" >>
S_num == << "n", "u", "m" >>

(***************************************************************************)
(* rustc_serialize::json::Builder::new(chars).build(): the JSON reader the *)
(* codec calls on the rest of the text.  It is the library's reader        *)
(* restricted to the characters of Ascii: no escapes, no fractions, no     *)
(* exponents.                                                              *)
(***************************************************************************)
JsonFail == [ok |-> FALSE, v |-> JNull, i |-> 0]
JsonAt(val, next) == [ok |-> TRUE, v |-> val, i |-> next]

\* the first position from i on whose character is not in the set cs, or
\* Len(s) + 1
FirstNotIn(s, i, cs) ==
    IF \E j \in i..Len(s) : s[j] \notin cs
    THEN CHOOSE j \in i..Len(s) : s[j] \notin cs /\ \A n \in i..(j - 1) : s[n] \in cs
    ELSE Len(s) + 1

\* the first position from i on whose character is c, or Len(s) + 1
FirstOf(s, i, c) ==
    IF \E j \in i..Len(s) : s[j] = c
    THEN CHOOSE j \in i..Len(s) : s[j] = c /\ \A n \in i..(j - 1) : s[n] # c
    ELSE Len(s) + 1

\* Parser::parse_whitespace
SkipWs(s, i) == FirstNotIn(s, i, {" "})

\* whether the text holds the word w at position i
HasWord(s, i, w) == i + Len(w) - 1 <= Len(s) /\ SubSeq(s, i, i + Len(w) - 1) = w

\* u64::MAX + 1 and usize::MAX + 1.  usize has the width of u64 (a 64-bit
\* target); the model scales both to 30 bits, TLC's integers being 32 bits
\* wide, and i64 with them.
UsizeRange == 1073741824

RECURSIVE ParseDigits(_, _, _)
\* Parser::parse_u64: the run of digits from position i, added to acc with
\* checked_mul and checked_add: [ok, n, i]
ParseDigits(s, i, acc) ==
    IF i <= Len(s) /\ s[i] \in Digits
    THEN IF acc > (UsizeRange - 1 - DigitVal(s[i])) \div 10
         THEN [ok |-> FALSE, n |-> 0, i |-> i]
         ELSE ParseDigits(s, i + 1, acc * 10 + DigitVal(s[i]))
    ELSE [ok |-> TRUE, n |-> acc, i |-> i]

\* Parser::parse_number: an optional '-', then "0" or a run of digits not
\* starting with 0; a negative number is an I64 (and must fit one), any
\* other a U64
ParseNumber(s, i) ==
    LET neg == s[i] = "-"
        j == IF neg THEN i + 1 ELSE i
    IN  IF j > Len(s) \/ s[j] \notin Digits THEN JsonFail
        ELSE IF s[j] = "0"
        THEN IF j + 1 <= Len(s) /\ s[j + 1] \in Digits THEN JsonFail
             ELSE JsonAt(IF neg THEN JI64(0) ELSE JU64(0), j + 1)
        ELSE LET r == ParseDigits(s, j, 0)
             IN  IF ~r.ok \/ (neg /\ r.n > UsizeRange \div 2) THEN JsonFail
                 ELSE JsonAt(IF neg THEN JI64(0 - r.n) ELSE JU64(r.n), r.i)

\* Parser::parse_str, from the character after the opening quote: the
\* characters up to the closing quote
ParseStr(s, i) ==
    LET q == FirstOf(s, i, "\"")
    IN  IF q > Len(s) THEN JsonFail ELSE JsonAt(JString(SubSeq(s, i, q - 1)), q + 1)

RECURSIVE ParseValue(_, _)
RECURSIVE ParseElems(_, _, _)
RECURSIVE ParseMembers(_, _, _)

\* the elements of an array after '[' or ',': value, then ',' or ']'
ParseElems(s, i, acc) ==
    LET e == ParseValue(s, SkipWs(s, i))
    IN  IF ~e.ok THEN JsonFail
        ELSE LET j == SkipWs(s, e.i)
             IN  IF j > Len(s) THEN JsonFail
                 ELSE IF s[j] = "," THEN ParseElems(s, j + 1, Append(acc, e.v))
                 ELSE IF s[j] = "]" THEN JsonAt(JArray(Append(acc, e.v)), j + 1)
                 ELSE JsonFail

\* the members of an object after '{' or ',': "key" ':' value, then ',' or '}'
ParseMembers(s, i, acc) ==
    LET j == SkipWs(s, i)
    IN  IF j > Len(s) \/ s[j] # "\"" THEN JsonFail
        ELSE LET key == ParseStr(s, j + 1)
             IN  IF ~key.ok THEN JsonFail
                 ELSE LET c == SkipWs(s, key.i)
                      IN  IF c > Len(s) \/ s[c] # ":" THEN JsonFail
                          ELSE LET e == ParseValue(s, SkipWs(s, c + 1))
                               IN  IF ~e.ok THEN JsonFail
                                   ELSE LET n == SkipWs(s, e.i)
                                            m == MapInsert(acc, key.v.v, e.v)
                                        IN  IF n > Len(s) THEN JsonFail
                                            ELSE IF s[n] = "," THEN ParseMembers(s, n + 1, m)
                                            ELSE IF s[n] = "}" THEN JsonAt(JObject(m), n + 1)
                                            ELSE JsonFail

\* Parser::parse_value: one JSON value starting at position i
ParseValue(s, i) ==
    IF i > Len(s) THEN JsonFail
    ELSE IF s[i] = "n"
    THEN IF HasWord(s, i, << "n", "u", "l", "l" >>) THEN JsonAt(JNull, i + 4) ELSE JsonFail
    ELSE IF s[i] = "t"
    THEN IF HasWord(s, i, << "t", "r", "u", "e" >>) THEN JsonAt(JBool(TRUE), i + 4) ELSE JsonFail
    ELSE IF s[i] = "f"
    THEN IF HasWord(s, i, << "f", "a", "l", "s", "e" >>) THEN JsonAt(JBool(FALSE), i + 5) ELSE JsonFail
    ELSE IF s[i] \in Digits \cup {"-"} THEN ParseNumber(s, i)
    ELSE IF s[i] = "\"" THEN ParseStr(s, i + 1)
    ELSE IF s[i] = "["
    THEN LET j == SkipWs(s, i + 1)
         IN  IF j <= Len(s) /\ s[j] = "]" THEN JsonAt(JArray(<< >>), j + 1)
             ELSE ParseElems(s, j, << >>)
    ELSE IF s[i] = "{"
    THEN LET j == SkipWs(s, i + 1)
         IN  IF j <= Len(s) /\ s[j] = "}" THEN JsonAt(JObject(<< >>), j + 1)
             ELSE ParseMembers(s, j, << >>)
    ELSE JsonFail

\* Builder::build: one JSON value, then only whitespace to the end of input
BuildJson(s) ==
    LET r == ParseValue(s, SkipWs(s, 1))
    IN  IF r.ok /\ SkipWs(s, r.i) > Len(s) THEN r ELSE JsonFail

(***************************************************************************)
(* SocketError values (src/src/error.rs): every error of the codec is      *)
(* SocketError::Io(IoError::new(kind, message)).                           *)
(***************************************************************************)
ACK_PACKET_WITHOUT_ID == "Received ack packet without an ID."
ATTACHMENT_ARRAY_TOO_SHORT == "Attachments could not be reattached because the attachment array was too short."
BUFFER_UNEXPECTED_EOF == "Packet type could not be read because the end of the buffer string was reached."
MESSAGE_PACKET_ARRAY_MISSING == "Packet could not be parsed because the message JSON data was not an array."
MESSAGE_PACKET_ARRAY_TOO_SHORT == "Packet could not be parsed because the data array did not contain enough elements."
MESSAGE_PACKET_NAME_NOT_STRING == "Packet could not be parsed because the array element that should've been the packet's name was not a string."
UNREACHABLE_UNWRAP_FAILED == "This unwrap while parsing a packet should never fail."

\* SocketError::invalid_data
invalid_data(msg) == [kind |-> "InvalidData", msg |-> msg]
\* SocketError::Io(IoError::new(ErrorKind::UnexpectedEof, BUFFER_UNEXPECTED_EOF))
UnexpectedEof == [kind |-> "UnexpectedEof", msg |-> BUFFER_UNEXPECTED_EOF]
\* impl From<ParseIntError> for SocketError: the description of the error
IntErrorEmpty == invalid_data("cannot parse integer from empty string")
IntErrorInvalidDigit == invalid_data("invalid digit found in string")
IntErrorOverflow == invalid_data("number too large to fit in target type")
\* impl From<ParserError> for SocketError
JsonSyntaxError == invalid_data("JSON parser error")
\* the illegal packet type character of from_str
IllegalType == invalid_data("Message type could not be parsed because an illegal character was read")
NoError == [kind |-> "None", msg |-> ""]

(***************************************************************************)
(* Option<T>                                                               *)
(***************************************************************************)
Some(x) == [some |-> TRUE, v |-> x]
None == [some |-> FALSE, v |-> 0]

(***************************************************************************)
(* The character iterator of from_str: a position i in buf; a position     *)
(* past Len(buf) is the exhausted iterator.                                *)
(***************************************************************************)
\* chars.by_ref().take_while(|&ch| ch != stop).collect::<String>(): the
\* collected String and the position after the call.  take_while takes the
\* first element that fails the test out of the iterator and drops it.
TakeWhileNot(buf, i, stop) ==
    LET n == FirstOf(buf, i, stop)
    IN  [str |-> SubSeq(buf, i, n - 1), pos |-> IF n > Len(buf) THEN n ELSE n + 1]

\* chars.by_ref().take_while(|&ch| ch.is_digit(10)).collect::<String>()
TakeWhileDigit(buf, i) ==
    LET n == FirstNotIn(buf, i, Digits)
    IN  [str |-> SubSeq(buf, i, n - 1), pos |-> IF n > Len(buf) THEN n ELSE n + 1]

\* u32::MAX = 4294967295 and i32::MAX = 2147483647, as quotient and
\* remainder by ten
U32MaxDiv10 == 429496729
U32MaxMod10 == 5
I32MaxDiv10 == 214748364
I32MaxMod10 == 7

RECURSIVE ParseIntDigits(_, _, _, _)
\* the digit loop of core::num::from_str_radix: checked_mul(10), then
\* checked_add(digit)
ParseIntDigits(str, acc, maxDiv10, maxMod10) ==
    IF str = << >> THEN [ok |-> TRUE, v |-> acc, err |-> NoError]
    ELSE IF Head(str) \notin Digits THEN [ok |-> FALSE, v |-> 0, err |-> IntErrorInvalidDigit]
    ELSE IF acc > maxDiv10 \/ (acc = maxDiv10 /\ DigitVal(Head(str)) > maxMod10)
    THEN [ok |-> FALSE, v |-> 0, err |-> IntErrorOverflow]
    ELSE ParseIntDigits(Tail(str), acc * 10 + DigitVal(Head(str)), maxDiv10, maxMod10)

\* str::parse for a non-negative result: the empty string is an error, a
\* lone sign is an error, one leading '+' is skipped, then only digits
ParseInt(str, maxDiv10, maxMod10) ==
    IF str = << >> THEN [ok |-> FALSE, v |-> 0, err |-> IntErrorEmpty]
    ELSE IF Len(str) = 1 /\ Head(str) \in {"+", "-"}
    THEN [ok |-> FALSE, v |-> 0, err |-> IntErrorInvalidDigit]
    ELSE IF Head(str) = "+" THEN ParseIntDigits(Tail(str), 0, maxDiv10, maxMod10)
    ELSE ParseIntDigits(str, 0, maxDiv10, maxMod10)

\* .parse::<u32>()
ParseU32(str) == ParseInt(str, U32MaxDiv10, U32MaxMod10)
\* .parse::<i32>() of a String of digits
ParseI32(str) == ParseInt(str, I32MaxDiv10, I32MaxMod10)

(***************************************************************************)
(* Body, get_name_and_body, Message::_new, Message::from_str               *)
(***************************************************************************)
TypeChars == {"0", "1", "2", "3", "4", "5", "6"}

NoBody == [t |-> "None"]
Connect == [t |-> "Connect"]
Disconnect == [t |-> "Disconnect"]
Event(data, id, name) == [t |-> "Event", data |-> data, id |-> id, name |-> name]
Ack(id) == [t |-> "Ack", id |-> id]
ErrorBody(data) == [t |-> "Error", data |-> data]
BinaryEvent(attachment_count, data, id, name) ==
    [t |-> "BinaryEvent", attachment_count |-> attachment_count,
     data |-> data, id |-> id, name |-> name]
BinaryAck(id) == [t |-> "BinaryAck", id |-> id]

\* the outcomes of a call: Ok, Err(SocketError), or a panic of the thread
Ok(nsp, body) == [st |-> "Ok", err |-> NoError, namespace |-> nsp, body |-> body]
Err(e) == [st |-> "Err", err |-> e, namespace |-> << >>, body |-> NoBody]
Panic(site) == [st |-> "Panic", err |-> invalid_data(site), namespace |-> << >>, body |-> NoBody]

\* a slip: the data is the last element of the array, not the second
get_name_and_body_last(json_body) ==
    IF json_body.t # "Array"
    THEN [ok |-> FALSE, err |-> invalid_data(MESSAGE_PACKET_ARRAY_MISSING), name |-> << >>, body |-> JNull]
    ELSE IF Len(json_body.v) < 1
    THEN [ok |-> FALSE, err |-> invalid_data(MESSAGE_PACKET_ARRAY_TOO_SHORT), name |-> << >>, body |-> JNull]
    ELSE IF json_body.v[1].t # "String"
    THEN [ok |-> FALSE, err |-> invalid_data(MESSAGE_PACKET_NAME_NOT_STRING), name |-> << >>, body |-> JNull]
    ELSE [ok |-> TRUE, err |-> NoError, name |-> json_body.v[1].v,
          body |-> IF Len(json_body.v) > 1 THEN json_body.v[Len(json_body.v)] ELSE JNull]
\* a slip: a first element that is no string gives the empty name
get_name_and_body_anyname(json_body) ==
    IF json_body.t # "Array"
    THEN [ok |-> FALSE, err |-> invalid_data(MESSAGE_PACKET_ARRAY_MISSING), name |-> << >>, body |-> JNull]
    ELSE IF Len(json_body.v) < 1
    THEN [ok |-> FALSE, err |-> invalid_data(MESSAGE_PACKET_ARRAY_TOO_SHORT), name |-> << >>, body |-> JNull]
    ELSE [ok |-> TRUE, err |-> NoError,
          name |-> IF json_body.v[1].t = "String" THEN json_body.v[1].v ELSE << >>,
          body |-> IF Len(Tail(json_body.v)) > 0 THEN json_body.v[2] ELSE JNull]
\* get_name_and_body: the name and the data of an event payload
get_name_and_body(json_body) ==
    IF json_body.t # "Array"
    THEN [ok |-> FALSE, err |-> invalid_data(MESSAGE_PACKET_ARRAY_MISSING), name |-> << >>, body |-> JNull]
    ELSE IF Len(json_body.v) < 1
    THEN [ok |-> FALSE, err |-> invalid_data(MESSAGE_PACKET_ARRAY_TOO_SHORT), name |-> << >>, body |-> JNull]
    ELSE IF json_body.v[1].t # "String"
    THEN [ok |-> FALSE, err |-> invalid_data(MESSAGE_PACKET_NAME_NOT_STRING), name |-> << >>, body |-> JNull]
    ELSE [ok |-> TRUE, err |-> NoError, name |-> json_body.v[1].v,
          body |-> IF Len(Tail(json_body.v)) > 0 THEN json_body.v[2] ELSE JNull]

\* Message::_new: assert!(nsp.starts_with('/'))
Message_new(nsp, body) ==
    IF Len(nsp) >= 1 /\ nsp[1] = "/" THEN Ok(nsp, body) ELSE Panic("assert nsp.starts_with('/')")

\* '5' | '6' => the attachment count is read
HasAttCount(ch) == ch = "5" \/ ch = "6"
\* a slip: the guard names the Ack type only
AckIdRequired_AckOnly(ch) == ch = "3"
\* Some(_) if ch == '3' || ch == '6' => the ack id is required
AckIdRequired(ch) == ch = "3" \/ ch = "6"
\* '2' | '4' | '5' => the rest is a JSON body
HasJsonBody(ch) == ch = "2" \/ ch = "4" \/ ch = "5"

\* let att_count = ...: [ok, err, v (Option<u32>), pos]
ReadAttCount(buf, ch, pos) ==
    IF HasAttCount(ch)
    THEN LET run == TakeWhileNot(buf, pos, "-")
             att_c_res == ParseU32(run.str)
         IN  [ok |-> att_c_res.ok, err |-> att_c_res.err, v |-> Some(att_c_res.v), pos |-> run.pos]
    ELSE [ok |-> TRUE, err |-> NoError, v |-> None, pos |-> pos]

\* let nsp = ...: [ok, err, v (String), pos]
ReadNamespace(buf, pos) ==
    IF pos > Len(buf) THEN [ok |-> FALSE, err |-> UnexpectedEof, v |-> << >>, pos |-> pos]
    ELSE IF buf[pos] = "/"
    THEN LET run == TakeWhileNot(buf, pos, ",")
         IN  [ok |-> TRUE, err |-> NoError, v |-> run.str, pos |-> run.pos]
    ELSE [ok |-> TRUE, err |-> NoError, v |-> << "/" >>, pos |-> pos]

\* a slip: the end of the text is taken for an absent id
ReadAckId_NoEof(buf, ch, pos) ==
    IF pos <= Len(buf) /\ buf[pos] \in Digits
    THEN LET run == TakeWhileDigit(buf, pos)
             parse_res == ParseI32(run.str)
         IN  [ok |-> parse_res.ok, err |-> parse_res.err, v |-> Some(parse_res.v), pos |-> run.pos]
    ELSE IF pos <= Len(buf) /\ AckIdRequired(ch)
    THEN [ok |-> FALSE, err |-> invalid_data(ACK_PACKET_WITHOUT_ID), v |-> None, pos |-> pos]
    ELSE [ok |-> TRUE, err |-> NoError, v |-> None, pos |-> pos]
\* let id = ...: [ok, err, v (Option<i32>), pos]
ReadAckId(buf, ch, pos) ==
    IF pos > Len(buf) THEN [ok |-> FALSE, err |-> UnexpectedEof, v |-> None, pos |-> pos]
    ELSE IF buf[pos] \in Digits
    THEN LET run == TakeWhileDigit(buf, pos)
             parse_res == ParseI32(run.str)
         IN  [ok |-> parse_res.ok, err |-> parse_res.err, v |-> Some(parse_res.v), pos |-> run.pos]
    ELSE IF AckIdRequired(ch)
    THEN [ok |-> FALSE, err |-> invalid_data(ACK_PACKET_WITHOUT_ID), v |-> None, pos |-> pos]
    ELSE [ok |-> TRUE, err |-> NoError, v |-> None, pos |-> pos]

\* let json_body = ...: [ok, err, v (Option<Json>)]
ReadJsonBody(buf, ch, pos) ==
    IF HasJsonBody(ch)
    THEN LET r == BuildJson(SubSeq(buf, pos, Len(buf)))
         IN  [ok |-> r.ok, err |-> IF r.ok THEN NoError ELSE JsonSyntaxError,
              v |-> [some |-> TRUE, v |-> r.v]]
    ELSE [ok |-> TRUE, err |-> NoError, v |-> [some |-> FALSE, v |-> JNull]]

\* Ok(Message::_new(nsp, match ch { ... })): Option::expect and
\* Option::unwrap panic on None, try! returns the error
BuildMessage(ch, att_count, nsp, id, json_body) ==
    IF ch = "0" THEN Message_new(nsp, Connect)
    ELSE IF ch = "1" THEN Message_new(nsp, Disconnect)
    ELSE IF ch = "2"
    THEN IF ~json_body.some THEN Panic(UNREACHABLE_UNWRAP_FAILED)
         ELSE LET nb == get_name_and_body(json_body.v)
              IN  IF ~nb.ok THEN Err(nb.err)
                  ELSE Message_new(nsp, Event(nb.body, id, nb.name))
    ELSE IF ch = "3"
    THEN IF ~id.some THEN Panic(UNREACHABLE_UNWRAP_FAILED) ELSE Message_new(nsp, Ack(id.v))
    ELSE IF ch = "4"
    THEN IF ~json_body.some THEN Panic(UNREACHABLE_UNWRAP_FAILED)
         ELSE Message_new(nsp, ErrorBody(json_body.v))
    ELSE IF ch = "5"
    THEN IF ~json_body.some THEN Panic(UNREACHABLE_UNWRAP_FAILED)
         ELSE LET nb == get_name_and_body(json_body.v)
              IN  IF ~nb.ok THEN Err(nb.err)
                  ELSE IF ~att_count.some THEN Panic("att_count.unwrap()")
                  ELSE Message_new(nsp, BinaryEvent(att_count.v, nb.body, id, nb.name))
    ELSE IF ch = "6"
    THEN IF ~id.some THEN Panic("id.unwrap()") ELSE Message_new(nsp, BinaryAck(id.v))
    ELSE Panic("unreachable!()")

\* the locals of from_str when it returns: how far it came (stage) and what
\* it had read by then
Locals(stage, ch, att, nsp, id, json) ==
    [stage |-> stage, ch |-> ch, att_count |-> att, nsp |-> nsp, id |-> id, json_body |-> json]

\* <Message as FromStr>::from_str: [res (the outcome), locals]
from_str(buf) ==
    IF buf = << >> THEN [res |-> Err(UnexpectedEof), locals |-> Locals("type", "", None, << >>, None, None)]
    ELSE LET ch == buf[1]
         IN  IF ch \notin TypeChars
             THEN [res |-> Err(IllegalType), locals |-> Locals("type", ch, None, << >>, None, None)]
             ELSE LET att == ReadAttCount(buf, ch, 2)
                  IN  IF ~att.ok
                      THEN [res |-> Err(att.err), locals |-> Locals("att_count", ch, None, << >>, None, None)]
                      ELSE LET nsp == ReadNamespace(buf, att.pos)
                           IN  IF ~nsp.ok
                               THEN [res |-> Err(nsp.err), locals |-> Locals("nsp", ch, att.v, << >>, None, None)]
                               ELSE LET id == ReadAckId(buf, ch, nsp.pos)
                                    IN  IF ~id.ok
                                        THEN [res |-> Err(id.err), locals |-> Locals("id", ch, att.v, nsp.v, None, None)]
                                        ELSE LET json == ReadJsonBody(buf, ch, id.pos)
                                             IN  IF ~json.ok
                                                 THEN [res |-> Err(json.err),
                                                       locals |-> Locals("json_body", ch, att.v, nsp.v, id.v, None)]
                                                 ELSE [res |-> BuildMessage(ch, att.v, nsp.v, id.v, json.v),
                                                       locals |-> Locals("body", ch, att.v, nsp.v, id.v, json.v)]

(***************************************************************************)
(* reconstruct / _reconstruct.  Each call of _reconstruct is recorded in   *)
(* a log, in call order: the path of the node from the root of the walk    *)
(* (child positions), its depth, and what the call did with it.            *)
(***************************************************************************)
\* a slip: the magnitude of a negative num is taken for the index
AsUsize_abs(num) == IF num < 0 THEN 0 - num ELSE num
\* num as usize, for a u64 or an i64: the two's complement wrap
AsUsize(num) == num % UsizeRange

\* Vec<u8>::to_json
BytesToJson(vec) == JArray([i \in 1..Len(vec) |-> JU64(vec[i])])

\* let possible_index = ...: Option<usize>
possible_index(body) ==
    LET p == MapGet(body.v, S_placeholder)
        n == MapGet(body.v, S_num)
    IN  IF p.some /\ p.v.t = "Boolean" /\ p.v.v = TRUE
        THEN IF n.some /\ n.v.t \in {"U64", "I64"} THEN Some(AsUsize(n.v.v)) ELSE None
        ELSE None

\* a slip: the buffer is taken by encounter, the first one each time
AttachmentsGet_first(attachments, index) ==
    IF index < Len(attachments) THEN Some(attachments[1]) ELSE None
\* attachments.get(index), for a zero-based index
AttachmentsGet(attachments, index) ==
    IF index < Len(attachments) THEN Some(attachments[index + 1]) ELSE None

\* a slip: the bound is off by one
BeyondDepth_off(depth, max_depth) == depth > max_depth
\* if depth >= max_depth { return Ok(()) }
BeyondDepth(depth, max_depth) == depth >= max_depth

Visit(depth, act) == [path |-> << >>, depth |-> depth, act |-> act]
\* the log of a child walk, seen from the parent: paths get the child's position
Under(i, log) == [n \in 1..Len(log) |-> [log[n] EXCEPT !.path = << i >> \o @]]

RECURSIVE _reconstruct(_, _, _, _)
RECURSIVE ReconstructEach(_, _, _, _, _)

\* for value in ... { try!(_reconstruct(value, attachments, max_depth, depth + 1)); }
\* from the i-th value on: [vals, ok, log]
ReconstructEach(vals, i, attachments, max_depth, depth) ==
    IF i > Len(vals) THEN [vals |-> vals, ok |-> TRUE, log |-> << >>]
    ELSE LET r == _reconstruct(vals[i], attachments, max_depth, depth + 1)
             done == [vals EXCEPT ![i] = r.body]
         IN  IF ~r.ok THEN [vals |-> done, ok |-> FALSE, log |-> Under(i, r.log)]
             ELSE LET rest == ReconstructEach(done, i + 1, attachments, max_depth, depth)
                  IN  [vals |-> rest.vals, ok |-> rest.ok, log |-> Under(i, r.log) \o rest.log]

\* _reconstruct: [body (the node after the call), ok, log]
_reconstruct(body, attachments, max_depth, depth) ==
    IF BeyondDepth(depth, max_depth)
    THEN [body |-> body, ok |-> TRUE, log |-> << Visit(depth, "bound") >>]
    ELSE IF body.t = "Object"
    THEN LET index == possible_index(body)
         IN  IF index.some
             THEN LET vec == AttachmentsGet(attachments, index.v)
                  IN  IF vec.some
                      THEN [body |-> BytesToJson(vec.v), ok |-> TRUE,
                            log |-> << Visit(depth, "splice") >>]
                      ELSE [body |-> body, ok |-> FALSE, log |-> << Visit(depth, "error") >>]
             ELSE LET vals == [i \in 1..Len(body.v) |-> body.v[i].v]
                      r == ReconstructEach(vals, 1, attachments, max_depth, depth)
                  IN  [body |-> JObject([i \in 1..Len(body.v) |->
                                            [k |-> body.v[i].k, v |-> r.vals[i]]]),
                       ok |-> r.ok, log |-> << Visit(depth, "object") >> \o r.log]
    ELSE IF body.t = "Array"
    THEN LET r == ReconstructEach(body.v, 1, attachments, max_depth, depth)
         IN  [body |-> JArray(r.vals), ok |-> r.ok,
              log |-> << Visit(depth, "array") >> \o r.log]
    ELSE [body |-> body, ok |-> TRUE, log |-> << Visit(depth, "leaf") >>]

\* pub fn reconstruct
reconstruct(body, attachments, max_depth) == _reconstruct(body, attachments, max_depth, 0)

\* Traverses the JSON tree up to a depth of 512 elements.
MessageMaxDepth == 512

\* Message::reconstruct: [st, body (of the message after the call), log]
Message_reconstruct(body, attachments) ==
    IF body.t = "BinaryEvent"
    THEN IF ~(body.attachment_count >= Len(attachments))
         THEN [st |-> "Panic", body |-> body, log |-> << >>]
         ELSE LET r == reconstruct(body.data, attachments, MessageMaxDepth)
              IN  [st |-> IF r.ok THEN "Ok" ELSE "Err",
                   body |-> [body EXCEPT !.data = r.body], log |-> r.log]
    ELSE [st |-> "Ok", body |-> body, log |-> << >>]

(***************************************************************************)
(* The inputs.  A packet text is put together from five parts (type,       *)
(* attachment count, namespace, ack id, rest), each well-formed or not;    *)
(* the codec sees only the text.  A tree for the public reconstruct is     *)
(* built by the program (BTreeMap::to_json, as in the tests).              *)
(***************************************************************************)
Quoted(str) == << "\"" >> \o str \o << "\"" >>
\* {"_placeholder":true,"num":<num>}
PlaceholderText(num) ==
    << "{" >> \o Quoted(S_placeholder) \o << ":", "t", "r", "u", "e", "," >>
        \o Quoted(S_num) \o << ":" >> \o num \o << "}" >>
EventText(name, data) == << "[" >> \o Quoted(name) \o << "," >> \o data \o << "]" >>

TypeParts == {<< c >> : c \in TypeChars \cup {"7"}}
\* N- well-formed
GoodAttParts == {<< "1", "-" >>, << "2", "-" >>}
AttParts ==
    GoodAttParts \cup
    {<< >>, << "+", "2", "-" >>, << "7" >>, << "x", "-" >>, << "-" >>,
     << "4", "2", "9", "4", "9", "6", "7", "2", "9", "6", "-" >>}
\* namespace, well-formed
GoodNspParts == {<< "/", "n", "," >>, << "/", "," >>}
NspParts == GoodNspParts \cup {<< >>, << "/", "n" >>}
\* ack id within i32
GoodIdParts == {<< "1" >>, << "1", "2" >>}
IdParts == GoodIdParts \cup {<< >>, << "9", "9", "9", "9", "9", "9", "9", "9", "9", "9" >>}
\* event payloads: JSON arrays that start with a name
GoodEventParts ==
    {<< "[" >> \o Quoted(<< "a" >>) \o << "]" >>,
     EventText(<< "a" >>, PlaceholderText(<< "0" >>)),
     EventText(<< "a" >>, << "[" >> \o PlaceholderText(<< "0" >>) \o << "," >>
                              \o PlaceholderText(<< "1" >>) \o << "]" >>),
     EventText(<< "a" >>, << "[" >> \o PlaceholderText(<< "1" >>) \o << "," >>
                              \o PlaceholderText(<< "0" >>) \o << "]" >>),
     EventText(<< "a" >>, << "{" >> \o Quoted(<< "m" >>) \o << ":", "t", "r", "u", "e", "," >>
                              \o Quoted(<< "b" >>) \o << ":" >> \o PlaceholderText(<< "0" >>) \o << "}" >>),
     EventText(<< "a" >>, << "[" >> \o PlaceholderText(<< "2" >>) \o << "]" >>),
     EventText(<< "a" >>, << "[", "[" >> \o PlaceholderText(<< "0" >>) \o << "]", "]" >>),
     EventText(<< "a" >>, PlaceholderText(<< "-", "1" >>)),
     EventText(<< "a" >>, PlaceholderText(Quoted(<< "a" >>))),
     EventText(<< "a" >>, << "1", ",", "2" >>)}
\* other JSON values
OtherJsonParts ==
    {<< "[" >> \o Quoted(<< >>) \o << "]" >>,
     << "[", "]" >>,
     << "{" >> \o Quoted(<< "x" >>) \o << ":", "1", "}" >>,
     << "[", "4", "2", "," >> \o Quoted(<< "x" >>) \o << "]" >>,
     Quoted(<< "a" >>),
     << "n", "u", "l", "l" >>,
     << " ", "[" >> \o Quoted(<< "a" >>) \o << "]" >>}
RestParts ==
    GoodEventParts \cup OtherJsonParts \cup
    {<< >>, << "x" >>, << "[" >> \o Quoted(<< "a" >>)}

Parts ==
    [ty : TypeParts, att : AttParts, nsp : NspParts, id : IdParts, rest : RestParts]
NoParts == [ty |-> << >>, att |-> << >>, nsp |-> << >>, id |-> << >>, rest |-> << >>]
TextOf(p) == p.ty \o p.att \o p.nsp \o p.id \o p.rest

\* BTreeMap::new() and insert, then to_json
ObjectOf(entries) ==
    LET RECURSIVE Ins(_, _)
        Ins(m, i) == IF i > Len(entries) THEN m
                     ELSE Ins(MapInsert(m, entries[i][1], entries[i][2]), i + 1)
    IN  JObject(Ins(<< >>, 1))
\* a placeholder whose num is the Json n
PlaceholderOf(n) == ObjectOf(<< << S_placeholder, JBool(TRUE) >>, << S_num, n >> >>)

Buffer(i) == << (3 * i + 1) % 256, (3 * i + 2) % 256, (3 * i + 3) % 256 >>
\* the attachment lists a caller supplies: [[1,2,3]], [[1,2,3],[4,5,6]], ...
AttachmentLists == {[i \in 1..k |-> Buffer(i - 1)] : k \in 0..MaxAttachments}

Placeholders ==
    {PlaceholderOf(JU64(n)) : n \in 0..MaxNum} \cup
    {PlaceholderOf(JI64(n)) : n \in -1..1} \cup
    {ObjectOf(<< << S_placeholder, JBool(TRUE) >>, << S_num, JU64(0) >>,
                 << << "x" >>, PlaceholderOf(JU64(MaxNum + 1)) >> >>)}
\* objects that are no placeholders
Lookalikes ==
    {ObjectOf(<< << S_placeholder, JBool(FALSE) >>, << S_num, JU64(0) >> >>),
     ObjectOf(<< << S_placeholder, JBool(TRUE) >> >>),
     PlaceholderOf(JString(<< "0" >>)),
     PlaceholderOf(JF64(0)),
     ObjectOf(<< << S_placeholder, JString(<< "t" >>) >>, << S_num, JU64(0) >> >>)}
Leaves == {JNull, JBool(TRUE), JU64(7), JString(<< "a" >>)}
Atoms == Leaves \cup Placeholders \cup Lookalikes
FewAtoms == {JNull, PlaceholderOf(JU64(0)), PlaceholderOf(JU64(1)),
             PlaceholderOf(JU64(MaxNum)), PlaceholderOf(JI64(-1))}
Trees1 ==
    Atoms \cup {JArray(<< a >>) : a \in Atoms}
          \cup {JArray(<< a, b >>) : a \in FewAtoms, b \in FewAtoms}
          \cup {ObjectOf(<< << << "m", "e", "m", "b", "e", "r", "1" >>, JBool(TRUE) >>,
                            << << "b", "_", "d", "a", "t", "a" >>, a >> >>) : a \in Atoms}
          \cup {PlaceholderOf(JArray(<< a >>)) : a \in FewAtoms}
Trees2 ==
    Trees1 \cup {JArray(<< x >>) : x \in Trees1}
           \cup {JArray(<< x, PlaceholderOf(JU64(0)) >>) : x \in Trees1}
           \cup {ObjectOf(<< << << "k" >>, x >> >>) : x \in Trees1}
Trees == Trees2 \cup {JArray(<< x >>) : x \in Trees2}

(***************************************************************************)
(* The state machine: a text is received and parsed, and the message may   *)
(* then be reconstructed with the attachments that followed it; or a tree  *)
(* is handed to the public reconstruct.                                    *)
(***************************************************************************)
VARIABLES
    phase,        \* "packet", "parsed", "reconstructed"; "tree", "walked"
    parts,        \* the parts the received text was put together from
    text,         \* the received text, buf of from_str
    msg,          \* the outcome of from_str; its body after Message::reconstruct
    locals,       \* the locals of from_str when it returned
    tree,         \* the Json handed to reconstruct, before the call
    after,        \* the same Json after the call
    attachments,  \* the attachments of the call
    max_depth,    \* the max_depth of the call
    result        \* the outcome of the call: [st, log]

vars == << phase, parts, text, msg, locals, tree, after, attachments, max_depth, result >>

NoMsg == [st |-> "None", err |-> NoError, namespace |-> << >>, body |-> NoBody]
NoLocals == Locals("none", "", None, << >>, None, None)
NoResult == [st |-> "None", log |-> << >>]

Init ==
    /\ msg = NoMsg
    /\ locals = NoLocals
    /\ after = JNull
    /\ attachments = << >>
    /\ max_depth = 0
    /\ result = NoResult
    /\ \/ /\ phase = "packet"
          /\ parts \in Parts \cup {NoParts}
          /\ text = TextOf(parts)
          /\ tree = JNull
       \/ /\ phase = "tree"
          /\ parts = NoParts
          /\ text = << >>
          /\ tree \in Trees

\* buf.parse::<Message>()
Parse ==
    /\ phase = "packet"
    /\ LET r == from_str(text)
       IN  /\ msg' = r.res
           /\ locals' = r.locals
    /\ phase' = "parsed"
    /\ UNCHANGED << parts, text, tree, after, attachments, max_depth, result >>

\* m.reconstruct(&atts) on a parsed message
ReconstructMessage(atts) ==
    /\ phase = "parsed"
    /\ msg.st = "Ok"
    /\ LET r == Message_reconstruct(msg.body, atts)
       IN  /\ msg' = [msg EXCEPT !.body = r.body]
           /\ result' = [st |-> r.st, log |-> r.log]
           /\ tree' = IF msg.body.t = "BinaryEvent" THEN msg.body.data ELSE JNull
           /\ after' = IF msg.body.t = "BinaryEvent" THEN r.body.data ELSE JNull
    /\ attachments' = atts
    /\ max_depth' = MessageMaxDepth
    /\ phase' = "reconstructed"
    /\ UNCHANGED << parts, text, locals >>

\* reconstruct(&mut tree, &atts, depth)
ReconstructTree(atts, depth) ==
    /\ phase = "tree"
    /\ LET r == reconstruct(tree, atts, depth)
       IN  /\ after' = r.body
           /\ result' = [st |-> IF r.ok THEN "Ok" ELSE "Err", log |-> r.log]
    /\ attachments' = atts
    /\ max_depth' = depth
    /\ phase' = "walked"
    /\ UNCHANGED << parts, text, msg, locals, tree >>

Next ==
    \/ Parse
    \/ \E atts \in AttachmentLists : ReconstructMessage(atts)
    \/ \E atts \in AttachmentLists, depth \in 0..MaxMaxDepth : ReconstructTree(atts, depth)

Spec == Init /\ [][Next]_vars

(***************************************************************************)
(* Vocabulary of the properties.                                           *)
(***************************************************************************)
Parsed == phase \in {"parsed", "reconstructed"}
\* a walk of _reconstruct was made
Walked ==
    \/ phase = "walked"
    \/ phase = "reconstructed" /\ msg.body.t = "BinaryEvent" /\ result.st # "Panic"

\* the number a run of digits denotes
RECURSIVE NumberOf(_)
NumberOf(str) ==
    IF str = << >> THEN 0
    ELSE 10 * NumberOf(SubSeq(str, 1, Len(str) - 1)) + DigitVal(str[Len(str)])

\* the Body variant of a type digit
VariantOf(ch) ==
    CASE ch = "0" -> "Connect" [] ch = "1" -> "Disconnect" [] ch = "2" -> "Event"
      [] ch = "3" -> "Ack" [] ch = "4" -> "Error" [] ch = "5" -> "BinaryEvent"
      [] ch = "6" -> "BinaryAck" [] OTHER -> "None"

\* the received text has a type digit and, for types 5 and 6 only, a
\* well-formed N- prefix
GoodHead ==
    /\ parts.ty \in {<< c >> : c \in TypeChars}
    /\ IF parts.ty \in {<< "5" >>, << "6" >>} THEN parts.att \in GoodAttParts
       ELSE parts.att = << >>
\* the namespace field is well-formed or absent
GoodNsp == parts.nsp \in GoodNspParts \cup {<< >>}

\* what get_name_and_body is to make of the payload j
NameOf(j) == j.v[1].v
DataOf(j) == IF Len(j.v) >= 2 THEN j.v[2] ELSE JNull

\* a placeholder: an object with "_placeholder": true and an integer "num"
IsPlaceholder(j) ==
    /\ j.t = "Object"
    /\ \E i \in 1..Len(j.v) : j.v[i].k = S_placeholder /\ j.v[i].v.t = "Boolean" /\ j.v[i].v.v
    /\ \E i \in 1..Len(j.v) : j.v[i].k = S_num /\ j.v[i].v.t \in {"U64", "I64"}
NumOf(j) == j.v[CHOOSE i \in 1..Len(j.v) : j.v[i].k = S_num].v.v
IsContainer(j) == j.t \in {"Array", "Object"}
\* the i-th child of an array or object
Child(j, i) == IF j.t = "Object" THEN j.v[i].v ELSE j.v[i]

RECURSIVE NodeAt(_, _)
\* the node of j at path p
NodeAt(j, p) == IF p = << >> THEN j ELSE NodeAt(Child(j, Head(p)), Tail(p))

RECURSIVE LivePaths(_)
\* the paths of the nodes of j that lie in no placeholder: the depth of
\* such a node is the length of its path
LivePaths(j) ==
    {<< >>} \cup
    (IF IsContainer(j) /\ ~IsPlaceholder(j)
     THEN UNION {{<< i >> \o q : q \in LivePaths(Child(j, i))} : i \in 1..Len(j.v)}
     ELSE {})

RECURSIVE AllPaths(_)
\* the paths of all nodes of j
AllPaths(j) ==
    {<< >>} \cup
    (IF IsContainer(j)
     THEN UNION {{<< i >> \o q : q \in AllPaths(Child(j, i))} : i \in 1..Len(j.v)}
     ELSE {})

\* the byte sequence of a buffer as a Json array of numbers
Bytes(vec) == [t |-> "Array", v |-> [i \in 1..Len(vec) |-> [t |-> "U64", v |-> vec[i]]]]
ValidIndex(num) == num >= 0 /\ num < Len(attachments)
\* the keys of an object, in order
KeysOf(j) == [i \in 1..Len(j.v) |-> j.v[i].k]
\* the log entries of the call
Entries == {result.log[n] : n \in 1..Len(result.log)}
Examined(e) == e.act # "bound"

(***************************************************************************)
(* Properties of Message::from_str                                         *)
(***************************************************************************)

\* C1: from_str is total: it returns Ok or Err, never panics; whenever body
\* construction is reached, id is present for types 3 and 6, json_body for
\* types 2, 4 and 5, att_count for type 5, the type is one of 0..6, and the
\* namespace handed to Message::_new starts with '/'.
FromStrTotal ==
    Parsed =>
        /\ msg.st \in {"Ok", "Err"}
        /\ locals.stage = "body" =>
            /\ locals.ch \in TypeChars
            /\ locals.ch \in {"3", "6"} => locals.id.some
            /\ locals.ch \in {"2", "4", "5"} => locals.json_body.some
            /\ locals.ch = "5" => locals.att_count.some
            /\ Len(locals.nsp) >= 1 /\ locals.nsp[1] = "/"
        /\ msg.st = "Ok" => Len(msg.namespace) >= 1 /\ msg.namespace[1] = "/"

\* a BinaryAck was built from a text with a namespace field
FromStrTotal_Witness ==
    /\ phase = "parsed"
    /\ locals.stage = "body"
    /\ locals.ch = "6"
    /\ msg.st = "Ok"
    /\ msg.body.t = "BinaryAck"
    /\ parts.nsp \in GoodNspParts

\* the received text conforms to the wire grammar and has no namespace field
ConformsWithoutNamespace ==
    /\ GoodHead
    /\ parts.nsp = << >>
    /\ CASE parts.ty \in {<< "0" >>, << "1" >>} -> parts.id = << >> /\ parts.rest = << >>
         [] parts.ty \in {<< "2" >>, << "5" >>} ->
                parts.id \in GoodIdParts \cup {<< >>} /\ parts.rest \in GoodEventParts
         [] parts.ty \in {<< "3" >>, << "6" >>} -> parts.id \in GoodIdParts /\ parts.rest = << >>
         [] OTHER -> parts.id = << >> /\ parts.rest \in GoodEventParts \cup OtherJsonParts

\* C2: every text that conforms to the wire grammar and omits the namespace
\* field, the payload-less "0" and "1" included, parses to the Body variant
\* of its type digit in namespace "/".
NamespaceDefault ==
    (phase = "parsed" /\ ConformsWithoutNamespace) =>
        /\ msg.st = "Ok"
        /\ msg.namespace = << "/" >>
        /\ msg.body.t = VariantOf(parts.ty[1])

\* C3: an Event or BinaryEvent text <type>[<N>-][<namespace>,]<digits><json-array>
\* parses with id = Some(<digits>) and with name and data taken from the
\* whole <json-array>.
AckIdExtraction ==
    (/\ phase = "parsed"
     /\ GoodHead
     /\ parts.ty \in {<< "2" >>, << "5" >>}
     /\ GoodNsp
     /\ parts.id \in GoodIdParts
     /\ parts.rest \in GoodEventParts) =>
        /\ msg.st = "Ok"
        /\ msg.body.id = Some(NumberOf(parts.id))
        /\ msg.body.name = NameOf(BuildJson(parts.rest).v)
        /\ msg.body.data = DataOf(BuildJson(parts.rest).v)

\* the received text is of type 3 or 6 and has no digit at the ack id position
NoAckId ==
    /\ GoodHead
    /\ parts.ty \in {<< "3" >>, << "6" >>}
    /\ GoodNsp
    /\ parts.id = << >>
    /\ parts.rest = << >> \/ parts.rest[1] \notin Digits \cup {"/"}

\* C4, as claimed: a text of type 3 or 6 with no digit at the ack id position,
\* whether another character stands there or the text ends there, fails with
\* the missing-ack-id error.
AckIdRequirement_AsClaimed ==
    (phase = "parsed" /\ NoAckId) =>
        msg.st = "Err" /\ msg.err = invalid_data(ACK_PACKET_WITHOUT_ID)

\* C4: a text of type 3 or 6 with a character that is no digit at the ack id
\* position fails with the missing-ack-id error; one that ends at the ack id
\* position fails with the unexpected-end error; and no Ack or BinaryAck body
\* is built without the id that was read.
AckIdRequirement ==
    /\ (phase = "parsed" /\ NoAckId) =>
        /\ msg.st = "Err"
        /\ parts.rest # << >> => msg.err = invalid_data(ACK_PACKET_WITHOUT_ID)
        /\ parts.rest = << >> => msg.err = UnexpectedEof
    /\ (Parsed /\ locals.ch \in {"3", "6"}) => msg.st # "Panic"
    /\ (Parsed /\ msg.st = "Ok" /\ msg.body.t \in {"Ack", "BinaryAck"}) =>
        locals.id.some /\ msg.body.id = locals.id.v

\* a BinaryAck text with a namespace and a letter at the ack id position
AckIdRequirement_Witness ==
    /\ phase = "parsed"
    /\ NoAckId
    /\ parts.ty = << "6" >>
    /\ parts.nsp \in GoodNspParts
    /\ parts.rest = << "x" >>
    /\ msg.err = invalid_data(ACK_PACKET_WITHOUT_ID)

\* the received text is an event with no ack id whose rest is one JSON value
EventWithoutId ==
    /\ GoodHead
    /\ parts.ty \in {<< "2" >>, << "5" >>}
    /\ GoodNsp
    /\ parts.id = << >>
    /\ parts.rest # << >>
    /\ parts.rest[1] \notin Digits
    /\ BuildJson(parts.rest).ok

\* C5: the payload of an event without ack id is classified: not an array,
\* array-missing error; empty array, array-too-short error; first element no
\* string, name-not-string error; else Ok with name the first element,
\* id None, data the second element or null.  The three errors differ.
EventPayloadShape ==
    /\ MESSAGE_PACKET_ARRAY_MISSING # MESSAGE_PACKET_ARRAY_TOO_SHORT
    /\ MESSAGE_PACKET_ARRAY_MISSING # MESSAGE_PACKET_NAME_NOT_STRING
    /\ MESSAGE_PACKET_ARRAY_TOO_SHORT # MESSAGE_PACKET_NAME_NOT_STRING
    /\ (phase = "parsed" /\ EventWithoutId) =>
        LET j == BuildJson(parts.rest).v
        IN  IF j.t # "Array"
            THEN msg.st = "Err" /\ msg.err = invalid_data(MESSAGE_PACKET_ARRAY_MISSING)
            ELSE IF Len(j.v) = 0
            THEN msg.st = "Err" /\ msg.err = invalid_data(MESSAGE_PACKET_ARRAY_TOO_SHORT)
            ELSE IF j.v[1].t # "String"
            THEN msg.st = "Err" /\ msg.err = invalid_data(MESSAGE_PACKET_NAME_NOT_STRING)
            ELSE /\ msg.st = "Ok"
                 /\ msg.body.t = VariantOf(parts.ty[1])
                 /\ msg.body.name = j.v[1].v
                 /\ msg.body.id = None
                 /\ msg.body.data = IF Len(j.v) >= 2 THEN j.v[2] ELSE JNull

\* a BinaryEvent whose payload array has three elements
EventPayloadShape_Witness ==
    /\ phase = "parsed"
    /\ EventWithoutId
    /\ parts.ty = << "5" >>
    /\ msg.st = "Ok"
    /\ Len(BuildJson(parts.rest).v.v) = 3
    /\ msg.body.data = JU64(1)

\* C6, as claimed: every Event or BinaryEvent body that from_str returns has
\* a non-empty name.
EventNameNonEmpty ==
    (Parsed /\ msg.st = "Ok" /\ msg.body.t \in {"Event", "BinaryEvent"}) =>
        msg.body.name # << >>

\* C6: the name of every Event or BinaryEvent body that from_str returns is
\* the string that is the first element of the payload array; it may be
\* the empty string.
EventNameIsFirstElement ==
    (Parsed /\ msg.st = "Ok" /\ msg.body.t \in {"Event", "BinaryEvent"}) =>
        /\ locals.json_body.some
        /\ locals.json_body.v.t = "Array"
        /\ Len(locals.json_body.v.v) >= 1
        /\ locals.json_body.v.v[1] = JString(msg.body.name)

\* an Event with the empty name
EventNameIsFirstElement_Witness ==
    /\ phase = "parsed"
    /\ msg.st = "Ok"
    /\ msg.body.t = "Event"
    /\ msg.body.name = << >>
    /\ locals.json_body.v.v[1] = JString(<< >>)

\* the digits that follow the type digit, and the position after them
CountRun == SubSeq(text, 2, FirstNotIn(text, 2, Digits) - 1)
CountEnd == FirstNotIn(text, 2, Digits)
\* a run of digits is within the unsigned 32-bit range
WithinU32(run) ==
    \/ Len(run) < 10
    \/ /\ Len(run) = 10
       /\ ~StrLess(<< "4", "2", "9", "4", "9", "6", "7", "2", "9", "5" >>, run)
\* the type digit is followed by one or more digits and a '-'
CountPrefix ==
    /\ CountRun # << >>
    /\ WithinU32(CountRun)
    /\ CountEnd <= Len(text)
    /\ text[CountEnd] = "-"

\* C10: a text of type 5 or 6 whose type digit is not followed by a run of
\* digits (within u32) and a '-' fails with the attachment-count error; one
\* where it is, is parsed on after the '-', and a BinaryEvent then has that
\* number as its attachment_count.
AttachmentCountGating ==
    (phase = "parsed" /\ text # << >> /\ text[1] \in {"5", "6"}) =>
        IF CountPrefix
        THEN /\ locals.stage # "att_count"
             /\ (msg.st = "Ok" /\ msg.body.t = "BinaryEvent") =>
                    msg.body.attachment_count = NumberOf(CountRun)
        ELSE /\ msg.st = "Err"
             /\ locals.stage = "att_count"
             /\ msg.err \in {IntErrorEmpty, IntErrorInvalidDigit, IntErrorOverflow}

(***************************************************************************)
(* Properties of reconstruct and Message::reconstruct                      *)
(***************************************************************************)

\* C7: when reconstruct succeeds on a tree shallower than max_depth, every
\* placeholder with num i has become the byte sequence of attachments[i],
\* chosen by its num; no placeholder remains; every other node, object key
\* and array position is as before.  Likewise for the data of a parsed
\* BinaryEvent passed through Message::reconstruct.
PlaceholderReconstruction ==
    (/\ Walked
     /\ result.st = "Ok"
     /\ \A p \in LivePaths(tree) : Len(p) < max_depth) =>
        /\ \A p \in LivePaths(tree) :
            LET old == NodeAt(tree, p)
                new == NodeAt(after, p)
            IN  IF IsPlaceholder(old)
                THEN ValidIndex(NumOf(old)) /\ new = Bytes(attachments[NumOf(old) + 1])
                ELSE /\ new.t = old.t
                     /\ ~IsContainer(old) => new = old
                     /\ old.t = "Array" => Len(new.v) = Len(old.v)
                     /\ old.t = "Object" => KeysOf(new) = KeysOf(old)
        /\ \A p \in AllPaths(after) : ~IsPlaceholder(NodeAt(after, p))

\* one buffer was spliced into two positions and another stayed unused
PlaceholderReconstruction_Witness ==
    /\ phase = "walked"
    /\ result.st = "Ok"
    /\ Len(attachments) = 2
    /\ max_depth = 2
    /\ tree.t = "Array" /\ Len(tree.v) = 2
    /\ IsPlaceholder(tree.v[1]) /\ NumOf(tree.v[1]) = 0
    /\ IsPlaceholder(tree.v[2]) /\ NumOf(tree.v[2]) = 0
    /\ after = [t |-> "Array", v |-> << Bytes(attachments[1]), Bytes(attachments[1]) >>]

\* the calls of the walk on a placeholder, above the bound, whose num is no
\* valid index of the attachments
BadPlaceholderVisits ==
    {n \in 1..Len(result.log) :
        /\ result.log[n].depth < max_depth
        /\ IsPlaceholder(NodeAt(tree, result.log[n].path))
        /\ ~ValidIndex(NumOf(NodeAt(tree, result.log[n].path)))}

\* C8: when the walk visits, at depth < max_depth, a placeholder whose num is
\* not a valid index of the attachments (num >= their length, or negative),
\* reconstruct returns the attachment-index error, splices no buffer into
\* that node, and visits no further node.
OutOfRangeIndex ==
    Walked =>
        \A n \in BadPlaceholderVisits :
            /\ result.st = "Err"
            /\ result.log[n].act = "error"
            /\ n = Len(result.log)
            /\ NodeAt(after, result.log[n].path) = NodeAt(tree, result.log[n].path)

\* a negative num was met while a buffer was there and a sibling was left
OutOfRangeIndex_Witness ==
    /\ phase = "walked"
    /\ Len(attachments) >= 1
    /\ tree.t = "Array" /\ Len(tree.v) = 2
    /\ \E n \in BadPlaceholderVisits :
        /\ NumOf(NodeAt(tree, result.log[n].path)) < 0
        /\ result.log[n].path = << 1 >>
    /\ result.st = "Err"

\* every placeholder above the bound has a valid index
NoBadPlaceholderAbove ==
    \A p \in LivePaths(tree) :
        (Len(p) < max_depth /\ IsPlaceholder(NodeAt(tree, p))) => ValidIndex(NumOf(NodeAt(tree, p)))

\* C9: a node the walk comes to is examined if and only if its depth (root 0)
\* is less than max_depth; a walk that is not stopped by an error comes to
\* every node of depth up to max_depth; every node at depth >= max_depth is
\* left unchanged and raises no error, so that a tree with all its bad
\* placeholders at or below the bound gives success; Message::reconstruct
\* applies the bound 512 from the root of the event's data.
DepthBound ==
    Walked =>
        /\ \A e \in Entries : e.depth = Len(e.path) /\ (Examined(e) <=> e.depth < max_depth)
        /\ result.st = "Ok" =>
            \A p \in LivePaths(tree) :
                Len(p) <= max_depth => \E e \in Entries : e.path = p
        /\ \A p \in LivePaths(tree) :
            Len(p) >= max_depth => NodeAt(after, p) = NodeAt(tree, p)
        /\ NoBadPlaceholderAbove => result.st = "Ok"
        /\ result.log[1].path = << >> /\ result.log[1].depth = 0
        /\ phase = "reconstructed" => max_depth = 512 /\ \A e \in Entries : Examined(e)

\* success on a tree with an out-of-range placeholder at the bound, which
\* was left as it was
DepthBound_Witness ==
    /\ phase = "walked"
    /\ result.st = "Ok"
    /\ \E p \in LivePaths(tree) :
        /\ Len(p) = max_depth
        /\ IsPlaceholder(NodeAt(tree, p))
        /\ ~ValidIndex(NumOf(NodeAt(tree, p)))
        /\ NodeAt(after, p) = NodeAt(tree, p)
    /\ \E e \in Entries : e.act = "splice"

====
